---- MODULE Spec2Model ----
(***************************************************************************)
(* Model of app.py: a Streamlit dashboard over a local score sheet.        *)
(*                                                                         *)
(* Cells.  A cell of a DataFrame is a record [k, s, v]: text (k = "str"),  *)
(* a number (k = "num"), a missing value (k = "nan") or a value of the     *)
(* Categorical Grupo column (k = "cat").                                   *)
(*                                                                         *)
(* Text is a sequence of pieces, each piece either the whitespace " " or a *)
(* run of non-blank characters: " FV1 " is <<" ", "FV1", " ">> and the     *)
(* empty string is <<>>.                                                   *)
(*                                                                         *)
(* Numbers are held in HALVES (the integer 3 stands for 1.5, 20 for 10,    *)
(* -2 for -1), so that fractional scores and the truncation of             *)
(* astype(int) / int() are modelled with integers.                         *)
(***************************************************************************)
EXTENDS Integers, Sequences, FiniteSets, TLC

VARIABLES
    phase,      \* position of the normalizer / leaderboard harness
    raw,        \* the DataFrame handed to _ensure_columns
    canon,      \* _ensure_columns(raw)
    again,      \* _ensure_columns of canon projected back to the input columns
    ranking,    \* the leaderboard tab_rank builds from canon
    files,      \* the local file system: path -> content, or NoFile
    cache,      \* the store of @st.cache_data for load_data: path -> entry
    custom,     \* value of the sidebar text input
    sel,        \* value of the team selectbox
    pressed,    \* value st.button returned in the last script run
    resolved,   \* data_path of the last script run
    reads,      \* number of times the last script run read a file
    outcome,    \* how the last script run ended
    before,     \* history: how the script run before the last one ended
    report,     \* what the last script run told the user
    views,      \* the tabs the last script run rendered
    shown,      \* df of the last script run, which the tabs display
    loaded,     \* history: path -> the content its first load since the last clear read
    dirty       \* history: a file was written or removed since the last script run

normVars == <<phase, raw, canon, again, ranking>>
appVars == <<files, cache, custom, sel, pressed, resolved, reads, outcome, before,
             report, views, shown, loaded, dirty>>

vars == <<normVars, appVars>>

----------------------------------------------------------------------------
(* Parameters of the program (app.py lines 9-17).                           *)

TEAMS == <<"FV1", "FV2", "FV3", "FV4", "FV5", "FV6">>

ACTIVITIES == <<"Fecha 1 y 2 (01-05/09)", "Fecha 3 (08/09)", "Fecha 4 (12/09)",
                "Fecha 5 (15/09)", "Fecha 6 (19/09)">>

Range(s) == {s[i] : i \in DOMAIN s}

TeamSet == Range(TEAMS)
ActivitySet == Range(ACTIVITIES)

\* keep = ["Grupo"] + ACTIVITIES
keep == {"Grupo"} \cup ActivitySet

----------------------------------------------------------------------------
(* Cells, numbers and text.                                                 *)

Str(s) == [k |-> "str", s |-> s, v |-> 0]
Number(n) == [k |-> "num", s |-> <<>>, v |-> n]
NaN == [k |-> "nan", s |-> <<>>, v |-> 0]
Category(team) == [k |-> "cat", s |-> <<team>>, v |-> 0]

\* The texts that parse as a number, with their value in halves.
NumericText == [t \in {"0", "1", "1.5", "2", "-1", "10", "20"} |->
                  CASE t = "0" -> 0
                    [] t = "1" -> 2
                    [] t = "1.5" -> 3
                    [] t = "2" -> 4
                    [] t = "-1" -> -2
                    [] t = "10" -> 20
                    [] t = "20" -> 40]

\* pd.to_numeric(x, errors="coerce") on one cell: a number stays, numeric text
\* is parsed, and a missing cell or text that does not parse becomes NaN.
to_numeric(cell) ==
    CASE cell.k = "num" -> cell
      [] cell.k = "str" /\ Len(cell.s) = 1 /\ cell.s[1] \in DOMAIN NumericText ->
            Number(NumericText[cell.s[1]])
      [] OTHER -> NaN

\* .fillna(0) on one cell
fillna0(cell) == IF cell.k = "nan" THEN Number(0) ELSE cell

\* .astype(int) / int() on a number: truncation toward zero (values in halves).
astype_int(x) == IF x >= 0 THEN 2 * (x \div 2) ELSE -(2 * ((-x) \div 2))

RECURSIVE lstrip(_)
lstrip(s) == IF s # <<>> /\ Head(s) = " " THEN lstrip(Tail(s)) ELSE s

RECURSIVE rstrip(_)
rstrip(s) ==
    IF s # <<>> /\ s[Len(s)] = " " THEN rstrip(SubSeq(s, 1, Len(s) - 1)) ELSE s

astype_str_strip_text_only(cell) ==
    CASE cell.k = "str" -> Str(rstrip(lstrip(cell.s)))
      [] cell.k = "nan" -> Str(<<"nan">>)
      [] OTHER -> Str(<<"<value>">>)

\* .astype(str).str.strip() on one cell.  The text of a number is never the
\* name of a team; it is held as the one piece "<num>".
astype_str_strip(cell) ==
    CASE cell.k = "str" -> Str(rstrip(lstrip(cell.s)))
      [] cell.k = "cat" -> Str(cell.s)
      [] cell.k = "nan" -> Str(<<"nan">>)
      [] OTHER -> Str(<<"<num>">>)

\* .isin(TEAMS) on one cell
isin_TEAMS(cell) == \E i \in DOMAIN TEAMS : cell = Str(<<TEAMS[i]>>)

----------------------------------------------------------------------------
(* _ensure_columns, step by step.  A DataFrame is [cols, rows]: the set of *)
(* its column names and the sequence of its rows, each row a function from *)
(* cols to cells.                                                           *)

\* if "Grupo" not in df.columns: df.insert(0, "Grupo", "")
InsertGrupo(df) ==
    IF "Grupo" \in df.cols THEN df
    ELSE [cols |-> df.cols \cup {"Grupo"},
          rows |-> [i \in DOMAIN df.rows |->
                      [c \in df.cols \cup {"Grupo"} |->
                          IF c = "Grupo" THEN Str(<<>>) ELSE df.rows[i][c]]]]

\* for col in ACTIVITIES: if col not in df.columns: df[col] = 0
EnsureActivities(df) ==
    [cols |-> df.cols \cup ActivitySet,
     rows |-> [i \in DOMAIN df.rows |->
                 [c \in df.cols \cup ActivitySet |->
                     IF c \in df.cols THEN df.rows[i][c] ELSE Number(0)]]]

\* df = df[[c for c in keep if c in df.columns]]
KeepExpected(df) ==
    [cols |-> df.cols \cap keep,
     rows |-> [i \in DOMAIN df.rows |-> [c \in df.cols \cap keep |-> df.rows[i][c]]]]

\* for col in ACTIVITIES: df[col] = pd.to_numeric(df[col], errors="coerce").fillna(0)
CoerceRow(r) ==
    [c \in DOMAIN r |-> IF c \in ActivitySet THEN fillna0(to_numeric(r[c])) ELSE r[c]]

NumericActivities(df) == [df EXCEPT !.rows = [i \in DOMAIN df.rows |-> CoerceRow(df.rows[i])]]

\* df["Grupo"] = df["Grupo"].astype(str).str.strip()
CleanRow(r) == [r EXCEPT !["Grupo"] = astype_str_strip(r["Grupo"])]

CleanGrupo(df) == [df EXCEPT !.rows = [i \in DOMAIN df.rows |-> CleanRow(df.rows[i])]]

\* df = df[df["Grupo"].isin(TEAMS)]
IsValidRow(r) == isin_TEAMS(r["Grupo"])

FilterTeams(df) == [df EXCEPT !.rows = SelectSeq(df.rows, IsValidRow)]

\* df = df.drop_duplicates(subset="Grupo", keep="last"): a row stays when no
\* later row has its Grupo.
RECURSIVE KeepFirstFrom(_, _)
KeepFirstFrom(rows, i) ==
    IF i > Len(rows) THEN <<>>
    ELSE (IF \E j \in 1..(i - 1) : rows[j]["Grupo"] = rows[i]["Grupo"]
          THEN <<>> ELSE <<rows[i]>>) \o KeepFirstFrom(rows, i + 1)

RECURSIVE KeepLastFrom(_, _)
KeepLastFrom(rows, i) ==
    IF i > Len(rows) THEN <<>>
    ELSE (IF \E j \in (i + 1)..Len(rows) : rows[j]["Grupo"] = rows[i]["Grupo"]
          THEN <<>> ELSE <<rows[i]>>) \o KeepLastFrom(rows, i + 1)

DropDuplicatesKeepFirst(df) == [df EXCEPT !.rows = KeepFirstFrom(df.rows, 1)]

DropDuplicates(df) == [df EXCEPT !.rows = KeepLastFrom(df.rows, 1)]

\* base = pd.DataFrame({"Grupo": TEAMS}); df = base.merge(df, on="Grupo", how="left"):
\* for each row of base in order, the rows of df with the same Grupo, and one
\* row of missing values where df has none.
RECURSIVE MergeFrom(_, _)
MergeFrom(df, i) ==
    IF i > Len(TEAMS) THEN <<>>
    ELSE LET key == Str(<<TEAMS[i]>>)
             Match(r) == r["Grupo"] = key
             hits == SelectSeq(df.rows, Match)
             blank == [c \in df.cols |-> IF c = "Grupo" THEN key ELSE NaN]
         IN  (IF hits = <<>> THEN <<blank>> ELSE hits) \o MergeFrom(df, i + 1)

MergeInner(df) ==
    LET Known(r) == isin_TEAMS(r["Grupo"])
    IN  [df EXCEPT !.rows = SelectSeq(df.rows, Known)]

MergeBase(df) == [df EXCEPT !.rows = MergeFrom(df, 1)]

RECURSIVE SumActivities(_, _)
SumActivities(r, i) ==
    IF i > Len(ACTIVITIES) THEN 0 ELSE r[ACTIVITIES[i]].v + SumActivities(r, i + 1)

\* df["Total"] = df[ACTIVITIES].sum(axis=1)
TotalFirstOnly(r) == Number(r[ACTIVITIES[1]].v)

Total(r) == Number(SumActivities(r, 1))

AddTotal(df) ==
    [cols |-> df.cols \cup {"Total"},
     rows |-> [i \in DOMAIN df.rows |->
                 [c \in df.cols \cup {"Total"} |->
                     IF c = "Total" THEN Total(df.rows[i]) ELSE df.rows[i][c]]]]

\* df["Grupo"] = pd.Categorical(df["Grupo"], categories=TEAMS, ordered=True)
CategoricalRow(r) ==
    [r EXCEPT !["Grupo"] =
        IF isin_TEAMS(r["Grupo"]) THEN Category(r["Grupo"].s[1]) ELSE NaN]

CategoricalGrupo(df) == [df EXCEPT !.rows = [i \in DOMAIN df.rows |-> CategoricalRow(df.rows[i])]]

\* df = df.sort_values("Grupo").reset_index(drop=True): rows in the order of
\* the categories, missing categories last.
RECURSIVE SortFrom(_, _)
SortFrom(df, i) ==
    IF i > Len(TEAMS)
    THEN LET Missing(r) == r["Grupo"].k = "nan" IN SelectSeq(df.rows, Missing)
    ELSE LET InCategory(r) == r["Grupo"] = Category(TEAMS[i])
         IN  SelectSeq(df.rows, InCategory) \o SortFrom(df, i + 1)

SortByGrupo(df) == [df EXCEPT !.rows = SortFrom(df, 1)]

_ensure_columns(df) ==
    LET a == KeepExpected(EnsureActivities(InsertGrupo(df)))
        b == FilterTeams(CleanGrupo(NumericActivities(a)))
        c == NumericActivities(MergeBase(DropDuplicates(b)))
    IN  SortByGrupo(CategoricalGrupo(AddTotal(c)))

----------------------------------------------------------------------------
(* tab_rank and medals.                                                     *)

medals(pos) ==
    IF pos = 1 THEN "gold" ELSE IF pos = 2 THEN "silver" ELSE IF pos = 3 THEN "bronze" ELSE ""

\* ranking = df[["Grupo", "Total"]].copy(); ranking["Total"] = ranking["Total"].astype(int)
RankingInput(df) ==
    [i \in DOMAIN df.rows |->
        [Grupo |-> df.rows[i]["Grupo"].s[1], Total |-> astype_int(df.rows[i]["Total"].v)]]

\* ranking.sort_values("Total", ascending=False): the sort is pandas' default
\* kind="quicksort", which is not a stable sort, so the order of rows with
\* equal Total is not determined by the call: every descending order is a
\* possible result.
sort_values(rows) ==
    {p \in Permutations(DOMAIN rows) :
        \A i, j \in DOMAIN rows : i < j => rows[p[i]].Total >= rows[p[j]].Total}

\* ranking.insert(0, "Posición", np.arange(1, len(ranking) + 1))
\* ranking.insert(0, "", ranking["Posición"].apply(medals))
Leaderboard(rows, p) ==
    [i \in DOMAIN rows |->
        [medal |-> medals(i), Posicion |-> i,
         Grupo |-> rows[p[i]].Grupo, Total |-> rows[p[i]].Total]]

\* The leaderboards tab_rank can show for df.
tab_rank(df) ==
    LET rows == RankingInput(df)
    IN  {Leaderboard(rows, p) : p \in sort_values(rows)}

----------------------------------------------------------------------------
(* Inputs of the normalizer: bounded raw tables.                            *)

MaxRows == 2

\* Texts of the Grupo column (<<>> is an empty cell).
GrupoTexts == {<<"FV1">>, <<" ", "FV1", " ">>, <<"FV2">>, <<"FV6", " ">>, <<"fv1">>, <<>>}

\* Texts of the five activity cells of a row ("" is an empty cell).
ActivityTexts ==
    {<<"", "", "", "", "">>,
     <<"10", "20", "0", "0", "0">>,
     <<"abc", "1.5", "", "-1", "2">>,
     <<"1", "1", "1", "1", "1">>,
     <<"2", "", "abc", "", "1.5">>,
     <<"-1", "abc", "", "", "">>}

\* The column sets of the raw tables: the expected columns, no Grupo column,
\* and two activity columns missing with a foreign column present.
ColumnSets ==
    {keep,
     ActivitySet,
     (keep \ {ACTIVITIES[2], ACTIVITIES[5]}) \cup {"Nota"}}

\* pd.read_csv / pd.read_excel on one cell: an empty cell is a missing value.
ReadCell(text) == IF text = "" THEN NaN ELSE Str(<<text>>)

ReadGrupo(g) == IF g = <<>> THEN NaN ELSE Str(g)

ActivityIndex(c) == CHOOSE i \in DOMAIN ACTIVITIES : ACTIVITIES[i] = c

RawRow(cols, g, a) ==
    [c \in cols |->
        IF c = "Grupo" THEN ReadGrupo(g)
        ELSE IF c \in ActivitySet THEN ReadCell(a[ActivityIndex(c)])
        ELSE Str(<<"x">>)]

RawRows(cols) == {RawRow(cols, g, a) : g \in GrupoTexts, a \in ActivityTexts}

NoTable == [cols |-> {}, rows |-> <<>>]

\* The canonical table projected back to the expected columns (Total dropped).
Project(df) == KeepExpected(df)

----------------------------------------------------------------------------
(* The normalizer on its own: a raw table is put together row by row,      *)
(* normalized, and its result normalized again.                             *)

AddRow ==
    /\ phase = "input"
    /\ Len(raw.rows) < MaxRows
    /\ \E r \in RawRows(raw.cols) : raw' = [raw EXCEPT !.rows = Append(@, r)]
    /\ UNCHANGED <<phase, canon, again, ranking>>
    /\ UNCHANGED appVars

Normalize ==
    /\ phase = "input"
    /\ canon' = _ensure_columns(raw)
    /\ phase' = "normalized"
    /\ UNCHANGED <<raw, again, ranking>>
    /\ UNCHANGED appVars

Renormalize ==
    /\ phase = "normalized"
    /\ again' = _ensure_columns(Project(canon))
    /\ phase' = "renormalized"
    /\ UNCHANGED <<raw, canon, ranking>>
    /\ UNCHANGED appVars

Rank ==
    /\ phase = "normalized"
    /\ ranking' \in tab_rank(canon)
    /\ phase' = "ranked"
    /\ UNCHANGED <<raw, canon, again>>
    /\ UNCHANGED appVars

----------------------------------------------------------------------------
(* The app: files, the cache of load_data, and script runs.  A path is     *)
(* [root, ext] as os.path.splitext splits it; the empty path stands for    *)
(* both "" and None (both are false in `custom if custom` and in           *)
(* `not data_path`).                                                       *)

Csv == [root |-> "puntajes", ext |-> ".csv"]
Xlsx == [root |-> "puntajes", ext |-> ".xlsx"]

CANDIDATE_PATHS == <<Csv, Xlsx>>

EmptyPath == [root |-> "", ext |-> ""]

\* A path the user can type besides the two expected files.
Txt == [root |-> "notas", ext |-> ".txt"]

Paths == Range(CANDIDATE_PATHS) \cup {Txt}

\* str.lower() on an extension
lower(e) ==
    CASE e = ".CSV" -> ".csv"
      [] e = ".XLSX" -> ".xlsx"
      [] e = ".XLS" -> ".xls"
      [] e = ".TXT" -> ".txt"
      [] OTHER -> e

\* ext = os.path.splitext(path)[1].lower(); the extensions load_data reads
Supported(path) == lower(path.ext) \in {".csv", ".xlsx", ".xls"}

\* File contents: no file, a file that cannot be read or parsed, a sheet.
NoFile == [exists |-> FALSE, readable |-> FALSE, table |-> NoTable]
Unreadable == [exists |-> TRUE, readable |-> FALSE, table |-> NoTable]
Sheet(t) == [exists |-> TRUE, readable |-> TRUE, table |-> t]

\* Only FV2, with scores 10, 20, 0, 0, 0.
SheetA ==
    [cols |-> keep,
     rows |-> <<RawRow(keep, <<"FV2">>, <<"10", "20", "0", "0", "0">>)>>]

\* Two rows for FV1, with a malformed and a negative cell.
SheetB ==
    [cols |-> keep,
     rows |-> <<RawRow(keep, <<"FV1">>, <<"1", "1", "1", "1", "1">>),
                RawRow(keep, <<" ", "FV1", " ">>, <<"abc", "1.5", "", "-1", "2">>)>>]

\* What a file at p can hold: a text file is no sheet.
Contents(p) == IF Supported(p) THEN {Unreadable, Sheet(SheetA), Sheet(SheetB)} ELSE {Unreadable}

\* os.path.exists(p)
exists(fs, p) == p \in DOMAIN fs /\ fs[p].exists

\* def find_data_path(): the first existing candidate, else None
RECURSIVE FirstExisting(_, _, _)
FirstExisting(fs, cands, i) ==
    IF i > Len(cands) THEN EmptyPath
    ELSE IF exists(fs, cands[i]) THEN cands[i]
    ELSE FirstExisting(fs, cands, i + 1)

find_data_path_xlsx_first(fs) == FirstExisting(fs, <<Xlsx, Csv>>, 1)

find_data_path(fs) == FirstExisting(fs, CANDIDATE_PATHS, 1)

\* data_path = custom if custom else find_data_path()
data_path(c, fs) == IF c # EmptyPath THEN c ELSE find_data_path(fs)

\* The body of load_data: the table, or the exception raised.
load_data_body(fs, path) ==
    IF ~Supported(path)
    THEN [status |-> "UnsupportedFormat", df |-> NoTable, reads |-> 0]
    ELSE IF ~fs[path].readable
    THEN [status |-> "LoadError", df |-> NoTable, reads |-> 1]
    ELSE [status |-> "ok", df |-> _ensure_columns(fs[path].table), reads |-> 1]

\* The store of @st.cache_data, keyed by the argument of load_data.
NoEntry == [hit |-> FALSE, df |-> NoTable]
Entry(df) == [hit |-> TRUE, df |-> df]

EmptyCache == [p \in Paths |-> NoEntry]

\* What the decorator stores after a call that missed: the value returned,
\* and nothing when the call raised.
StoreAlways(c, path, r) == [c EXCEPT ![path] = Entry(r.df)]

Store(c, path, r) == IF r.status = "ok" THEN [c EXCEPT ![path] = Entry(r.df)] ELSE c

\* The entry the decorator looks up for a call.
LookupAnyPath(c, path) ==
    IF \E q \in Paths : c[q].hit THEN c[CHOOSE q \in Paths : c[q].hit] ELSE NoEntry

Lookup(c, path) == c[path]

\* @st.cache_data def load_data(path)
load_data(c, fs, path) ==
    IF Lookup(c, path).hit
    THEN [status |-> "ok", df |-> Lookup(c, path).df, reads |-> 0, cache |-> c]
    ELSE LET r == load_data_body(fs, path)
         IN  [status |-> r.status, df |-> r.df, reads |-> r.reads,
              cache |-> Store(c, path, r)]

\* if st.button("Actualizar"): st.cache_data.clear()
Clear(c, button) == IF button THEN EmptyCache ELSE c

\* if not data_path or not os.path.exists(data_path)
NotFound(fs, path) == path = EmptyPath \/ ~exists(fs, path)

Failures == {"FileNotFound", "UnsupportedFormat", "LoadError"}

\* st.stop() after st.warning and after st.error: the run ends there.
StopNever(status) == FALSE

Stop(status) == status \in Failures

Tabs == {"Resultados por equipo", "Ranking", "Tabla completa"}

\* st.warning / st.error / st.success
Report(status) ==
    CASE status = "FileNotFound" -> "warning: No se encontro puntajes.csv ni puntajes.xlsx"
      [] status = "UnsupportedFormat" ->
            "error: Error al cargar el archivo: Formato no soportado. Use .csv o .xlsx"
      [] status = "LoadError" -> "error: Error al cargar el archivo"
      [] OTHER -> "success: Datos cargados"

\* One run of the script, top to bottom, with the text input holding c, the
\* button returning b and the selectbox holding s.
ScriptRun(c, b, s) ==
    LET c1 == Clear(cache, b)
        path == data_path(c, files)
        r == IF NotFound(files, path)
             THEN [status |-> "FileNotFound", df |-> NoTable, reads |-> 0, cache |-> c1]
             ELSE load_data(c1, files, path)
        history == IF b THEN [p \in Paths |-> NoFile] ELSE loaded
    IN  /\ custom' = c
        /\ sel' = s
        /\ pressed' = b
        /\ resolved' = path
        /\ cache' = r.cache
        /\ reads' = r.reads
        /\ outcome' = r.status
        /\ before' = outcome
        /\ report' = Report(r.status)
        /\ views' = IF Stop(r.status) THEN {} ELSE Tabs
        /\ shown' = IF r.status = "ok" THEN r.df ELSE NoTable
        /\ loaded' = IF r.status = "ok" /\ ~history[path].exists
                     THEN [history EXCEPT ![path] = files[path]]
                     ELSE history
        /\ dirty' = FALSE
        /\ UNCHANGED files
        /\ UNCHANGED normVars

\* The page is opened (a new session): the widgets hold their defaults.
OpenPage == ScriptRun(EmptyPath, FALSE, TEAMS[1])

\* custom = st.text_input("Ruta personalizada (opcional)", ...)
EditCustomPath == \E c \in Paths \cup {EmptyPath} : c # custom /\ ScriptRun(c, FALSE, sel)

\* st.button("Actualizar")
PressActualizar == ScriptRun(custom, TRUE, sel)

\* The teams picked in the selectbox.
Picked == {TEAMS[1], TEAMS[2]}

\* sel = st.selectbox("Equipo", options=TEAMS, index=0)
SelectEquipo == \E t \in Picked : t # sel /\ ScriptRun(custom, FALSE, t)

\* The user edits the files outside the app.
WriteFile ==
    /\ \E p \in Paths : \E f \in Contents(p) :
          /\ files[p] # f
          /\ files' = [files EXCEPT ![p] = f]
    /\ dirty' = TRUE
    /\ UNCHANGED <<cache, custom, sel, pressed, resolved, reads, outcome, before,
                   report, views, shown, loaded>>
    /\ UNCHANGED normVars

DeleteFile ==
    /\ \E p \in Paths :
          /\ files[p].exists
          /\ files' = [files EXCEPT ![p] = NoFile]
    /\ dirty' = TRUE
    /\ UNCHANGED <<cache, custom, sel, pressed, resolved, reads, outcome, before,
                   report, views, shown, loaded>>
    /\ UNCHANGED normVars

----------------------------------------------------------------------------
(* Specifications.                                                          *)

NormIdle ==
    /\ phase = "input"
    /\ canon = NoTable
    /\ again = NoTable
    /\ ranking = <<>>

AppIdle ==
    /\ files = [p \in Paths |-> NoFile]
    /\ cache = EmptyCache
    /\ custom = EmptyPath
    /\ sel = TEAMS[1]
    /\ pressed = FALSE
    /\ resolved = EmptyPath
    /\ reads = 0
    /\ outcome = "none"
    /\ before = "none"
    /\ report = ""
    /\ views = {}
    /\ shown = NoTable
    /\ loaded = [p \in Paths |-> NoFile]
    /\ dirty = FALSE

\* The app: no file at first, nothing cached, the page not yet opened.
Init ==
    /\ NormIdle
    /\ raw = NoTable
    /\ AppIdle

Next ==
    \/ OpenPage
    \/ EditCustomPath
    \/ PressActualizar
    \/ SelectEquipo
    \/ WriteFile
    \/ DeleteFile

Spec == Init /\ [][Next]_vars

\* The normalizer on the bounded raw tables.
InitNorm ==
    /\ NormIdle
    /\ raw \in {[cols |-> cs, rows |-> <<>>] : cs \in ColumnSets}
    /\ AppIdle

NextNorm ==
    \/ AddRow
    \/ Normalize
    \/ Renormalize

SpecNorm == InitNorm /\ [][NextNorm]_vars

\* The leaderboard on canonical tables: one row per team, whose first
\* activity cell holds one of RankTexts.
RankTexts == {"", "1", "1.5", "2"}

RankInputs ==
    {[cols |-> keep,
      rows |-> [i \in DOMAIN TEAMS |-> RawRow(keep, <<TEAMS[i]>>, <<f[i], "", "", "", "">>)]] :
        f \in [DOMAIN TEAMS -> RankTexts]}

InitRank ==
    /\ NormIdle
    /\ raw \in RankInputs
    /\ AppIdle

NextRank ==
    \/ Normalize
    \/ Rank

SpecRank == InitRank /\ [][NextRank]_vars

----------------------------------------------------------------------------
(* Properties.                                                              *)

Normalized == phase # "input"

\* Position of the last raw row whose trimmed Grupo is team t (0 when none).
LastRowOf(t) ==
    LET hits == {i \in DOMAIN raw.rows :
                    /\ "Grupo" \in raw.cols
                    /\ astype_str_strip(raw.rows[i]["Grupo"]) = Str(<<t>>)}
    IN  IF hits = {} THEN 0 ELSE CHOOSE i \in hits : \A j \in hits : j <= i

\* The value of activity a that raw row i contributes.
Contributed(i, a) ==
    IF a \in raw.cols THEN fillna0(to_numeric(raw.rows[i][a])) ELSE Number(0)

\* raw without the rows whose trimmed Grupo is no team.
OnlyTeamRows ==
    LET Valid(r) == "Grupo" \in raw.cols /\ isin_TEAMS(astype_str_strip(r["Grupo"]))
    IN  [raw EXCEPT !.rows = SelectSeq(raw.rows, Valid)]

\* C1: the output of _ensure_columns has exactly six rows, one for each of
\* FV1..FV6, each team exactly once, in the order FV1, FV2, ..., FV6,
\* whatever the raw table holds.
C1_SixRowsInOrder ==
    Normalized =>
        /\ Len(canon.rows) = 6
        /\ \A i \in DOMAIN canon.rows : canon.rows[i]["Grupo"] = Category(TEAMS[i])
        /\ \A t \in TeamSet :
              Cardinality({i \in DOMAIN canon.rows : canon.rows[i]["Grupo"].s = <<t>>}) = 1

C1_Witness ==
    /\ phase = "normalized"
    /\ "Grupo" \notin raw.cols
    /\ Len(raw.rows) = MaxRows

\* C2: every activity value of the output of _ensure_columns is a number
\* >= 0 and every Total is >= 0, whatever the input cells contain.
C2_NonNegative ==
    Normalized =>
        \A i \in DOMAIN canon.rows :
            /\ \A a \in ActivitySet :
                  canon.rows[i][a].k = "num" /\ canon.rows[i][a].v >= 0
            /\ canon.rows[i]["Total"].v >= 0

C9_Idempotent == phase = "renormalized" => again = canon

C9_Witness ==
    /\ phase = "renormalized"
    /\ raw.rows # <<>>
    /\ \E i \in DOMAIN canon.rows : canon.rows[i]["Total"].v # 0

\* C10: every row's Total is the sum of its five activity values, and every
\* team without a surviving raw row has five zeros and Total 0; only FV2 with
\* 10, 20, 0, 0, 0 gives FV2 Total 30 and Total 0 for the five other teams.
C10_TotalIsSum ==
    Normalized =>
        /\ \A i \in DOMAIN canon.rows :
              LET r == canon.rows[i]
              IN  /\ r["Total"].v = r[ACTIVITIES[1]].v + r[ACTIVITIES[2]].v
                                    + r[ACTIVITIES[3]].v + r[ACTIVITIES[4]].v
                                    + r[ACTIVITIES[5]].v
                  /\ LastRowOf(TEAMS[i]) = 0 =>
                        /\ \A a \in ActivitySet : r[a] = Number(0)
                        /\ r["Total"] = Number(0)
        /\ raw = SheetA =>
              \A i \in DOMAIN canon.rows :
                  canon.rows[i]["Total"] = Number(IF TEAMS[i] = "FV2" THEN 2 * 30 ELSE 0)

C10_Witness == phase = "normalized" /\ raw = SheetA

\* Position of team t in TEAMS.
TeamIndex(t) == CHOOSE i \in DOMAIN TEAMS : TEAMS[i] = t

\* The part of C4 that does not concern ties: Positions are 1..6, each team
\* appears once with its Total as an integer, Totals are descending, Position
\* 1 has the maximum Total, and the medals are on Positions 1, 2 and 3 only.
C4_PositionsAndMedals ==
    phase = "ranked" =>
        /\ DOMAIN ranking = 1..6
        /\ {ranking[i].Grupo : i \in DOMAIN ranking} = TeamSet
        /\ \A i \in DOMAIN ranking :
              /\ ranking[i].Posicion = i
              /\ ranking[i].Total = astype_int(canon.rows[TeamIndex(ranking[i].Grupo)]["Total"].v)
              /\ ranking[i].medal = (CASE i = 1 -> "gold" [] i = 2 -> "silver"
                                       [] i = 3 -> "bronze" [] OTHER -> "")
        /\ \A i, j \in DOMAIN ranking : i < j => ranking[i].Total >= ranking[j].Total
        /\ \A i \in DOMAIN ranking : ranking[1].Total >= ranking[i].Total

\* C4: the leaderboard has Positions 1..6 in order of Total descending, the
\* team at Position 1 has the maximum Total, teams with equal Totals appear in
\* the order FV1 .. FV6, and gold, silver and bronze are attached to Positions
\* 1, 2 and 3 and no medal to any other Position.
C4_Leaderboard ==
    /\ C4_PositionsAndMedals
    /\ phase = "ranked" =>
          \A i, j \in DOMAIN ranking :
              (i < j /\ ranking[i].Total = ranking[j].Total) =>
                  TeamIndex(ranking[i].Grupo) < TeamIndex(ranking[j].Grupo)

\* The path a script run must resolve, read off the text input and the files.
ExpectedPath ==
    IF custom # EmptyPath THEN custom
    ELSE IF files[Csv].exists THEN Csv
    ELSE IF files[Xlsx].exists THEN Xlsx
    ELSE EmptyPath

\* A script run has ended and no file has changed since.
JustRan == outcome # "none" /\ ~dirty

\* C5: the table a successful run shows for path p is _ensure_columns of the
\* content p had at the first successful load of p since the most recent
\* refresh (or since start): a file modification alone never changes it, and
\* a refresh discards the cached tables of all paths, so that the run reads
\* the file again.
C5_StaleUntilRefresh ==
    /\ outcome = "ok" =>
          /\ loaded[resolved].readable
          /\ shown = _ensure_columns(loaded[resolved].table)
    /\ (pressed /\ JustRan) =>
          /\ \A q \in Paths \ {resolved} : ~cache[q].hit
          /\ outcome = "ok" =>
                reads = 1 /\ shown = _ensure_columns(files[resolved].table)

C5_Witness ==
    /\ outcome = "ok"
    /\ JustRan
    /\ files[resolved].readable
    /\ files[resolved] # loaded[resolved]
    /\ shown # _ensure_columns(files[resolved].table)

\* C6: a run that ends in FileNotFound, UnsupportedFormat or LoadError reports
\* the failure and renders none of the three tabs, not even from a cached
\* table; a run whose path does not exist ends in FileNotFound, and a run
\* whose existing file has another extension than .csv/.xlsx/.xls ends in
\* UnsupportedFormat.
C6_FailureRendersNothing ==
    /\ outcome \in Failures =>
          /\ views = {}
          /\ shown = NoTable
          /\ report \in {Report(f) : f \in Failures}
          /\ report = Report(outcome)
    /\ JustRan =>
          /\ (resolved = EmptyPath \/ ~files[resolved].exists) <=> outcome = "FileNotFound"
          /\ (resolved # EmptyPath /\ files[resolved].exists
                /\ resolved.ext \notin {".csv", ".xlsx", ".xls"}) <=>
                   outcome = "UnsupportedFormat"
          /\ outcome = "LoadError" => ~files[resolved].readable

C6_Witness ==
    /\ outcome = "FileNotFound"
    /\ resolved # EmptyPath
    /\ cache[resolved].hit

\* C7 as stated: a run succeeds after a failed run only after corrective
\* action followed by an explicit refresh.
C7_RefreshRequired == (before \in Failures /\ outcome = "ok") => pressed

\* C7 as amended: a failed run reads the file at most once, and a run
\* succeeds after a failed run only when a file was written or removed or the
\* path in the text input was changed in between; no refresh is needed.
C7_CorrectiveActionOnly ==
    [][(outcome \in Failures /\ outcome' \in Failures \cup {"ok"}) =>
          /\ outcome' \in Failures => reads' <= 1
          /\ outcome' = "ok" => (dirty \/ custom' # custom)]_vars

C7_Witness ==
    /\ before \in Failures
    /\ outcome = "ok"
    /\ ~pressed
    /\ ~dirty

\* C8: the data path of a run is the text input whenever it is non-empty,
\* with no fallback to the default files even if it does not exist; otherwise
\* puntajes.csv if it exists, else puntajes.xlsx if it exists, else no path
\* (FileNotFound).  When both exist the CSV is chosen.
C8_PathResolution ==
    JustRan =>
        /\ resolved = ExpectedPath
        /\ resolved = EmptyPath => outcome = "FileNotFound"
        /\ (custom # EmptyPath /\ ~files[custom].exists) => outcome = "FileNotFound"

C8_Witness ==
    /\ JustRan
    /\ custom = EmptyPath
    /\ files[Csv].exists
    /\ files[Xlsx].exists
    /\ resolved = Csv
    /\ outcome = "ok"

====
